---- MODULE Spec2Model ----
(***************************************************************************)
(* assert-no-inline-lint-disables: the scanner (scanner.py) and the        *)
(* command-line driver (cli.py) as a state machine.                        *)
(*                                                                         *)
(* Text is a sequence of atoms.  An atom is a run of characters that the   *)
(* lexer and the directive patterns treat as a unit ("pylint:", "disable", *)
(* "-next", a quote, a comment marker, a newline, ...).  A file content is *)
(* one flat sequence of atoms; scan_file splits it into lines.             *)
(***************************************************************************)
EXTENDS Integers, Sequences, FiniteSets, TLC

VARIABLES
    files,             \* args.files: the paths of the run, with what open() gives
    args,              \* the parsed command line
    pc,                \* position of main: "main", "scan", "done"
    file_idx,          \* number of paths main's loop has finished
    lines,             \* scan_file: content.splitlines() of the file being scanned
    line_number,       \* scan_file: number of the last line scanned
    in_block_comment,  \* scan_file: ScanState carried to the next line
    findings,          \* scan_file: the findings of the file being scanned
    all_findings,      \* main: all_findings
    had_error,         \* main: had_error
    stdout,            \* what was printed on stdout
    stderr,            \* what was printed on stderr
    opened,            \* the paths main has called open() for, in order
    scan_calls,        \* the paths main has called scan_file for, in order
    exit_code          \* the argument of sys.exit, -1 while running

vars == <<files, args, pc, file_idx, lines, line_number, in_block_comment,
          findings, all_findings, had_error, stdout, stderr, opened, scan_calls,
          exit_code>>

EXIT_SUCCESS == 0
EXIT_FINDINGS == 1
EXIT_ERROR == 2

(***************************************************************************)
(* Atoms                                                                   *)
(***************************************************************************)
NL == "\n"
SP == " "
TAB == "\t"
DQ == "\""
SQ == "'"
BS == "\\"
HASH == "#"
LINE_C == "//"
BLOCK_OPEN == "/*"
BLOCK_CLOSE == "*/"
\* The boundary put between two comment spans of one line.
JOIN == "|"

\* str.lower() of an atom, as re.IGNORECASE compares it.
Lower(a) ==
    CASE a = "PYLINT:" -> "pylint:"
      [] a = "Pylint:" -> "pylint:"
      [] a = "YAMLLINT" -> "yamllint"
      [] a = "TYPE:" -> "type:"
      [] a = "MYPY:" -> "mypy:"
      [] a = "DISABLE" -> "disable"
      [] a = "Disable" -> "disable"
      [] a = "ENABLE" -> "enable"
      [] a = "Enable" -> "enable"
      [] a = "IGNORE" -> "ignore"
      [] a = "SKIP" -> "skip"
      [] a = "-NEXT" -> "-next"
      [] a = "-LINE" -> "-line"
      [] a = "-FILE" -> "-file"
      [] a = "-ERRORS" -> "-errors"
      [] a = "NOLINT" -> "nolint"
      [] a = "NoLint" -> "nolint"
      [] a = "NEXTLINE" -> "nextline"
      [] a = "BEGIN" -> "begin"
      [] a = "END" -> "end"
      [] a = "End" -> "end"
      [] a = "CLANG-FORMAT" -> "clang-format"
      [] a = "OFF" -> "off"
      [] a = "ON" -> "on"
      [] OTHER -> a

\* IsSpace that knows the space only.
IsSpace_no_tab(a) == a = SP

\* \s of the regular expressions, within one line.
IsSpace(a) == a \in {SP, TAB}

\* Whether the atom's first character is a hyphen.
StartsWithHyphen(a) == Lower(a) \in {"-next", "-line", "-file", "-errors", "-x"}

(***************************************************************************)
(* Regular expressions.  A compiled pattern is a sequence of elements:     *)
(*   [kind |-> "lit", a |-> atom]   the atom's characters, ignoring case   *)
(*   [kind |-> "ws", min |-> n]     \s* (n = 0) or \s+ (n = 1)             *)
(*   [kind |-> "not_hyphen"]        the lookahead (?!-)                    *)
(*   [kind |-> "not_end"]           the lookahead (?!END)                  *)
(***************************************************************************)
Lit(a) == [kind |-> "lit", a |-> a]
WsStar == [kind |-> "ws", min |-> 0]
WsPlus == [kind |-> "ws", min |-> 1]
\* NotHyphen that lets anything follow.
NotHyphen_any == [kind |-> "ws", min |-> 0]
NotHyphen == [kind |-> "not_hyphen"]
NotEnd == [kind |-> "not_end"]

RECURSIVE MatchFrom(_, _, _, _)
\* Whether elements k.. of pattern p match text from position i on.
MatchFrom(p, k, text, i) ==
    IF k > Len(p) THEN TRUE
    ELSE CASE p[k].kind = "lit" ->
                /\ i <= Len(text)
                /\ Lower(text[i]) = p[k].a
                /\ MatchFrom(p, k + 1, text, i + 1)
           [] p[k].kind = "ws" ->
                \E n \in p[k].min .. (Len(text) + 1 - i) :
                    /\ \A j \in i .. (i + n - 1) : IsSpace(text[j])
                    /\ MatchFrom(p, k + 1, text, i + n)
           [] p[k].kind = "not_hyphen" ->
                /\ (i > Len(text) \/ ~StartsWithHyphen(text[i]))
                /\ MatchFrom(p, k + 1, text, i)
           [] p[k].kind = "not_end" ->
                /\ (i > Len(text) \/ Lower(text[i]) # "end")
                /\ MatchFrom(p, k + 1, text, i)

\* pattern.search(text): the pattern matches somewhere in the text.
search(p, text) == \E i \in 1 .. Len(text) : MatchFrom(p, 1, text, i)

(***************************************************************************)
(* The directive pattern registry                                          *)
(***************************************************************************)
Pattern(re, directive) == [re |-> re, directive |-> directive]

YAMLLINT_PATTERNS == <<
    Pattern(<<Lit("yamllint"), WsPlus, Lit("disable"), Lit("-line")>>, "yamllint disable-line"),
    Pattern(<<Lit("yamllint"), WsPlus, Lit("disable"), Lit("-file")>>, "yamllint disable-file"),
    Pattern(<<Lit("yamllint"), WsPlus, Lit("disable"), NotHyphen>>, "yamllint disable") >>

\* PYLINT_PATTERNS with a bare pattern that takes 'enable' for 'disable'.
PYLINT_PATTERNS_enable == <<
    Pattern(<<Lit("pylint:"), WsStar, Lit("disable"), Lit("-next")>>, "pylint: disable-next"),
    Pattern(<<Lit("pylint:"), WsStar, Lit("disable"), Lit("-line")>>, "pylint: disable-line"),
    Pattern(<<Lit("pylint:"), WsStar, Lit("skip"), Lit("-file")>>, "pylint: skip-file"),
    Pattern(<<Lit("pylint:"), WsStar, Lit("disable"), NotHyphen>>, "pylint: disable"),
    Pattern(<<Lit("pylint:"), WsStar, Lit("enable"), NotHyphen>>, "pylint: disable") >>

PYLINT_PATTERNS == <<
    Pattern(<<Lit("pylint:"), WsStar, Lit("disable"), Lit("-next")>>, "pylint: disable-next"),
    Pattern(<<Lit("pylint:"), WsStar, Lit("disable"), Lit("-line")>>, "pylint: disable-line"),
    Pattern(<<Lit("pylint:"), WsStar, Lit("skip"), Lit("-file")>>, "pylint: skip-file"),
    Pattern(<<Lit("pylint:"), WsStar, Lit("disable"), NotHyphen>>, "pylint: disable") >>

MYPY_PATTERNS == <<
    Pattern(<<Lit("type:"), WsStar, Lit("ignore")>>, "type: ignore"),
    Pattern(<<Lit("mypy:"), WsStar, Lit("ignore"), Lit("-errors")>>, "mypy: ignore-errors") >>

ALL_PATTERNS == <<
    [tool |-> "yamllint", patterns |-> YAMLLINT_PATTERNS],
    [tool |-> "pylint", patterns |-> PYLINT_PATTERNS],
    [tool |-> "mypy", patterns |-> MYPY_PATTERNS] >>

\* The C-family tools: clang-tidy, clang-format, clang-diagnostic.
CLANG_TIDY_PATTERNS == <<
    Pattern(<<Lit("nolint"), Lit("nextline")>>, "NOLINTNEXTLINE"),
    Pattern(<<Lit("nolint"), Lit("begin")>>, "NOLINTBEGIN"),
    Pattern(<<Lit("nolint"), NotEnd>>, "NOLINT") >>

CLANG_FORMAT_PATTERNS == <<
    Pattern(<<Lit("clang-format"), WsPlus, Lit("off")>>, "clang-format off") >>

CLANG_DIAGNOSTIC_PATTERNS == <<
    Pattern(<<Lit("#"), Lit("pragma"), WsPlus, Lit("clang"), WsPlus,
              Lit("diagnostic"), WsPlus, Lit("ignored")>>,
            "#pragma clang diagnostic ignored") >>

CLANG_PATTERNS == <<
    [tool |-> "clang-tidy", patterns |-> CLANG_TIDY_PATTERNS],
    [tool |-> "clang-format", patterns |-> CLANG_FORMAT_PATTERNS],
    [tool |-> "clang-diagnostic", patterns |-> CLANG_DIAGNOSTIC_PATTERNS] >>

\* The whole registry, in registry order.
REGISTRY == ALL_PATTERNS \o CLANG_PATTERNS

\* The tool identifiers.
TOOLS == {REGISTRY[i].tool : i \in 1 .. Len(REGISTRY)}

\* CODE_TOOLS with no tool in it: every directive is looked for in comments.
CODE_TOOLS_none == {}

\* The tools whose directive is a preprocessor line of the code, not a comment.
CODE_TOOLS == {"clang-diagnostic"}

\* The file extensions each tool applies to.
C_EXTENSIONS == {"c", "h", "cpp"}

ToolExtensions(tool) ==
    CASE tool = "yamllint" -> {"yaml", "yml"}
      [] tool \in {"pylint", "mypy"} -> {"py"}
      [] OTHER -> C_EXTENSIONS

(***************************************************************************)
(* The line matcher                                                        *)
(***************************************************************************)
RECURSIVE every_match(_, _, _, _)
\* first_match without its break: every matching pattern is reported.
every_match(tool, patterns, k, text) ==
    IF k > Len(patterns) THEN <<>>
    ELSE (IF search(patterns[k].re, text) THEN << <<tool, patterns[k].directive>> >> ELSE <<>>)
             \o every_match(tool, patterns, k + 1, text)

RECURSIVE last_match(_, _, _, _)
\* first_match without its break, the last matching pattern winning.
last_match(tool, patterns, k, text) ==
    IF k > Len(patterns) THEN <<>>
    ELSE LET rest == last_match(tool, patterns, k + 1, text)
         IN  IF rest # <<>> THEN rest
             ELSE IF search(patterns[k].re, text) THEN << <<tool, patterns[k].directive>> >>
             ELSE <<>>

RECURSIVE first_match(_, _, _, _)
\* The inner loop of scan_line: the (tool, directive) of the first pattern,
\* from index k on, that matches, and then the break; <<>> when none matches.
first_match(tool, patterns, k, text) ==
    IF k > Len(patterns) THEN <<>>
    ELSE IF search(patterns[k].re, text) THEN << <<tool, patterns[k].directive>> >>
    ELSE first_match(tool, patterns, k + 1, text)

RECURSIVE scan_registry_reversed(_, _, _)
\* scan_registry with the tools taken from the last to the first.
scan_registry_reversed(registry, t, text) ==
    IF t > Len(registry) THEN <<>>
    ELSE scan_registry_reversed(registry, t + 1, text)
             \o first_match(registry[t].tool, registry[t].patterns, 1, text)

RECURSIVE scan_registry(_, _, _)
\* The outer loop of scan_line over the tools of a registry, from index t on:
\* the findings of each tool, in the order of the registry.
scan_registry(registry, t, text) ==
    IF t > Len(registry) THEN <<>>
    ELSE first_match(registry[t].tool, registry[t].patterns, 1, text)
             \o scan_registry(registry, t + 1, text)

(***************************************************************************)
(* The lexical segmenter                                                   *)
(***************************************************************************)
\* What a line gives: its comment text, its code text, and whether it ends
\* inside a block comment.
Segments(comment, code, carried) == [comment |-> comment, code |-> code, carried |-> carried]

\* escapes that takes the backslash for an ordinary character.
escapes_never(a) == FALSE

\* Inside a literal, a backslash escapes the next character.
escapes(a) == a = BS

\* carried_out that lets an open literal run on into the next line.
carried_out_of_any(st) == st \in {"BLOCK_COMMENT", "STRING", "CHAR"}

\* carried_out that carries nothing.
carried_out_never(st) == FALSE

\* What a line end carries to the next line: only an open block comment;
\* an open literal closes.
carried_out(st) == st = "BLOCK_COMMENT"

\* The number of characters from position i on before the next one of stops:
\* a run that the segmenter goes through without leaving its state.
run_length(line, i, stops) ==
    LET at == {j \in i .. Len(line) : line[j] \in stops}
    IN  IF at = {} THEN Len(line) + 1 - i
        ELSE (CHOOSE j \in at : \A k \in at : j <= k) - i

RECURSIVE segment_c(_, _, _, _, _)
\* C-family mode, from position i in state st.  A run of ordinary characters
\* of code, or of a block comment, is taken in one step.
segment_c(line, i, st, comment, code) ==
    IF i > Len(line) THEN Segments(comment, code, carried_out(st))
    ELSE LET a == line[i]
         IN  CASE st = "CODE" ->
                    IF a = LINE_C
                    THEN Segments(comment \o SubSeq(line, i + 1, Len(line)), code, FALSE)
                    ELSE IF a = BLOCK_OPEN THEN segment_c(line, i + 1, "BLOCK_COMMENT", comment, code)
                    ELSE IF a = DQ THEN segment_c(line, i + 1, "STRING", comment, code)
                    ELSE IF a = SQ THEN segment_c(line, i + 1, "CHAR", comment, code)
                    ELSE LET n == run_length(line, i, {LINE_C, BLOCK_OPEN, DQ, SQ})
                         IN  segment_c(line, i + n, "CODE", comment,
                                       code \o SubSeq(line, i, i + n - 1))
               [] st = "BLOCK_COMMENT" ->
                    IF a = BLOCK_CLOSE
                    THEN segment_c(line, i + 1, "CODE", Append(comment, JOIN), code)
                    ELSE LET n == run_length(line, i, {BLOCK_CLOSE})
                         IN  segment_c(line, i + n, "BLOCK_COMMENT",
                                       comment \o SubSeq(line, i, i + n - 1), code)
               [] st \in {"STRING", "CHAR"} ->
                    IF escapes(a) THEN segment_c(line, i + 2, st, comment, code)
                    ELSE IF a = (IF st = "STRING" THEN DQ ELSE SQ)
                    THEN segment_c(line, i + 1, "CODE", comment, code)
                    ELSE segment_c(line, i + 1, st, comment, code)

RECURSIVE segment_hash(_, _, _)
\* Line-oriented mode, from position i; quote is the open string's quote, or "".
segment_hash(line, i, quote) ==
    IF i > Len(line) THEN Segments(<<>>, <<>>, FALSE)
    ELSE LET a == line[i]
         IN  IF quote = ""
             THEN IF a = HASH THEN Segments(SubSeq(line, i + 1, Len(line)), <<>>, FALSE)
                  ELSE IF a \in {DQ, SQ} THEN segment_hash(line, i + 1, a)
                  ELSE segment_hash(line, i + 1, "")
             ELSE IF escapes(a) THEN segment_hash(line, i + 2, quote)
                  ELSE IF a = quote THEN segment_hash(line, i + 1, "")
                  ELSE segment_hash(line, i + 1, quote)

\* segment that takes the whole line for comment text, as a scan of the raw
\* line does.
segment_first_span(line, c_style, carried) ==
    LET seg == IF c_style
               THEN segment_c(line, 1, IF carried THEN "BLOCK_COMMENT" ELSE "CODE", <<>>, <<>>)
               ELSE segment_hash(line, 1, "")
        joins == {i \in 1 .. Len(seg.comment) : seg.comment[i] = JOIN}
    IN  IF joins = {} THEN seg
        ELSE [seg EXCEPT !.comment =
                 SubSeq(seg.comment, 1, (CHOOSE i \in joins : \A j \in joins : i <= j) - 1)]

\* segment that takes the whole line for comment text and for code text.
segment_raw(line, c_style, carried) == Segments(line, line, FALSE)

\* segment that forgets the state carried in.
segment_uncarried(line, c_style, carried) ==
    IF c_style THEN segment_c(line, 1, "CODE", <<>>, <<>>) ELSE segment_hash(line, 1, "")

\* segment(line, carried_in_block_comment) in the mode of the file.
segment(line, c_style, carried) ==
    IF c_style
    THEN segment_c(line, 1, IF carried THEN "BLOCK_COMMENT" ELSE "CODE", <<>>, <<>>)
    ELSE segment_hash(line, 1, "")

(***************************************************************************)
(* scan_line and scan_file                                                 *)
(***************************************************************************)
\* requested without its filter: every tool of the registry is evaluated.
requested_all(registry, tools) == registry

\* The entries of the registry for the tools of a set, in registry order.
requested(registry, tools) == SelectSeq(registry, LAMBDA e : e.tool \in tools)

\* scan_line that gives an error in place of the findings of a line whose
\* last character is a backslash, with nothing after it to escape.
scan_line_raises(line, linters, c_style, carried) ==
    LET seg == segment(line, c_style, carried)
    IN  IF line # <<>> /\ line[Len(line)] = BS
        THEN [found |-> << <<"IndexError", "string index out of range">> >>,
              carried |-> seg.carried]
        ELSE [found |-> scan_registry(requested(REGISTRY, linters \ CODE_TOOLS), 1, seg.comment)
                         \o scan_registry(requested(REGISTRY, linters \cap CODE_TOOLS), 1,
                                          seg.code),
              carried |-> seg.carried]

\* One line: the (tool, directive) pairs of the requested tools, and the
\* block-comment state after the line.
scan_line(line, linters, c_style, carried) ==
    LET seg == segment(line, c_style, carried)
    IN  [found |-> scan_registry(requested(REGISTRY, linters \ CODE_TOOLS), 1, seg.comment)
                     \o scan_registry(requested(REGISTRY, linters \cap CODE_TOOLS), 1, seg.code),
         carried |-> seg.carried]

RECURSIVE splitlines(_)
\* str.splitlines(): the lines of a content, without their line ends; a final
\* line end opens no further line.
splitlines(content) ==
    IF content = <<>> THEN <<>>
    ELSE LET nls == {i \in 1 .. Len(content) : content[i] = NL}
         IN  IF nls = {} THEN <<content>>
             ELSE LET n == CHOOSE i \in nls : \A j \in nls : i <= j
                  IN  <<SubSeq(content, 1, n - 1)>>
                          \o splitlines(SubSeq(content, n + 1, Len(content)))

Finding(path, n, tool, directive) ==
    [path |-> path, line_number |-> n, tool |-> tool, directive |-> directive]

\* Finding.__str__: path:line_number:tool:directive
Str(f) == <<f.path, f.line_number, f.tool, f.directive>>

Path(file) == <<file.stem, file.ext>>

\* The tools of the requested set that apply to a file's extension.
applicable(linters, file) == {t \in linters : file.ext \in ToolExtensions(t)}

c_style_comments(file) == file.ext \in C_EXTENSIONS

(***************************************************************************)
(* Allow-patterns: scan_file(path, content, linters, allow)                *)
(***************************************************************************)
\* The atoms that are an argument of a directive: what follows it with no
\* space between: a list of messages, of error codes or of checks.
ARGUMENTS == {"=", "too-many-arguments", "[import]", "(bugprone-*)"}

RECURSIVE MatchEnd(_, _, _, _)
\* The position after the match of elements k.. of pattern p at position i,
\* the runs of white space taken as long as they go; 0 when there is no match.
MatchEnd(p, k, text, i) ==
    IF k > Len(p) THEN i
    ELSE CASE p[k].kind = "lit" ->
                IF i <= Len(text) /\ Lower(text[i]) = p[k].a
                THEN MatchEnd(p, k + 1, text, i + 1) ELSE 0
           [] p[k].kind = "ws" ->
                LET ns == {n \in p[k].min .. (Len(text) + 1 - i) :
                              /\ \A j \in i .. (i + n - 1) : IsSpace(text[j])
                              /\ MatchEnd(p, k + 1, text, i + n) # 0}
                IN  IF ns = {} THEN 0
                    ELSE MatchEnd(p, k + 1, text,
                                  i + (CHOOSE n \in ns : \A m \in ns : m <= n))
           [] p[k].kind = "not_hyphen" ->
                IF i > Len(text) \/ ~StartsWithHyphen(text[i])
                THEN MatchEnd(p, k + 1, text, i) ELSE 0
           [] p[k].kind = "not_end" ->
                IF i > Len(text) \/ Lower(text[i]) # "end"
                THEN MatchEnd(p, k + 1, text, i) ELSE 0

RECURSIVE arguments_end(_, _)
\* The position after the arguments that start at position i.
arguments_end(text, i) ==
    IF i <= Len(text) /\ text[i] \in ARGUMENTS THEN arguments_end(text, i + 1) ELSE i

\* The rendered directive text of a match: the text of the first match of
\* the pattern, with the arguments that follow it.
directive_text(re, text) ==
    LET starts == {i \in 1 .. Len(text) : MatchFrom(re, 1, text, i)}
        i == CHOOSE x \in starts : \A y \in starts : x <= y
    IN  IF starts = {} THEN <<>>
        ELSE SubSeq(text, i, arguments_end(text, MatchEnd(re, 1, text, i)) - 1)

\* An allow-pattern matches a text that contains it.
pattern_in(text, pattern) ==
    \E i \in 0 .. (Len(text) - Len(pattern)) : SubSeq(text, i + 1, i + Len(pattern)) = pattern

\* is_allowed that allows nothing.
is_allowed_never(text, allow) == FALSE

\* Whether any allow-pattern matches the rendered directive text.
is_allowed(text, allow) == \E pattern \in allow : pattern_in(text, pattern)

\* The pattern of a tool that has the directive as its label.
pattern_of(tool, directive) ==
    LET ps == (CHOOSE e \in {REGISTRY[i] : i \in 1 .. Len(REGISTRY)} : e.tool = tool).patterns
    IN  ps[CHOOSE k \in 1 .. Len(ps) : ps[k].directive = directive]

\* suppressed that tests the allow-patterns against the text of the whole line.
suppressed_by_line(pair, seg, allow) == is_allowed(seg.comment \o seg.code, allow)

\* Whether the finding of a (tool, directive) of a line is dropped: its own
\* rendered directive text is tested against the allow-patterns.
suppressed(pair, seg, allow) ==
    LET text == IF pair[1] \in CODE_TOOLS THEN seg.code ELSE seg.comment
    IN  is_allowed(directive_text(pattern_of(pair[1], pair[2]).re, text), allow)

\* The (tool, directive) pairs of a line that no allow-pattern drops.
keep_findings(found, seg, allow) ==
    SelectSeq(found, LAMBDA pair : ~suppressed(pair, seg, allow))

RECURSIVE to_findings_zero_based(_, _, _, _)
\* to_findings that numbers the lines from 0.
to_findings_zero_based(path, n, found, k) ==
    IF k > Len(found) THEN <<>>
    ELSE <<Finding(path, n - 1, found[k][1], found[k][2])>>
             \o to_findings_zero_based(path, n, found, k + 1)

RECURSIVE to_findings(_, _, _, _)
\* The Finding of each (tool, directive) of one line, from index k on.
to_findings(path, n, found, k) ==
    IF k > Len(found) THEN <<>>
    ELSE <<Finding(path, n, found[k][1], found[k][2])>> \o to_findings(path, n, found, k + 1)

(***************************************************************************)
(* main                                                                    *)
(***************************************************************************)
\* fnmatch.fnmatch(path, pattern) for the globs "stem.ext" with "*" for either.
fnmatch(path, pattern) ==
    /\ pattern.stem \in {"*", path[1]}
    /\ pattern.ext \in {"*", path[2]}

\* excluded that skips no path.
excluded_never(file) == FALSE

excluded(file) == \E pattern \in args.exclude : fnmatch(Path(file), pattern)

\* parse_linters_ok that accepts every tool list.
parse_linters_any(names) == TRUE

\* parse_linters raises ValueError for an empty or unknown tool list.
parse_linters_ok(names) == names # {} /\ names \subseteq TOOLS

RECURSIVE print_each(_, _)
print_each(fs, k) == IF k > Len(fs) THEN <<>> ELSE <<Str(fs[k])>> \o print_each(fs, k + 1)

\* What output_findings prints.
output_findings(fs, use_json, use_count) ==
    IF use_json THEN << <<"json", fs>> >>
    ELSE IF use_count THEN << <<"count", Len(fs)>> >>
    ELSE print_each(fs, 1)

\* The file main's loop is at.
current == files[file_idx + 1]

\* main, lines 107-112: the requested tools are parsed and validated.
ParseLinters ==
    /\ pc = "start"
    /\ IF parse_linters_ok(args.linters)
       THEN /\ pc' = "main"
            /\ UNCHANGED <<stderr, exit_code>>
       ELSE /\ pc' = "done"
            /\ stderr' = Append(stderr, <<"Error", "linters">>)
            /\ exit_code' = EXIT_ERROR
    /\ UNCHANGED <<files, args, file_idx, lines, line_number, in_block_comment,
                   findings, all_findings, had_error, stdout, opened, scan_calls>>

\* main, lines 118-120: a path matching an exclude pattern is skipped.
SkipExcluded ==
    /\ pc = "main"
    /\ file_idx < Len(files)
    /\ excluded(current)
    /\ file_idx' = file_idx + 1
    /\ UNCHANGED <<files, args, pc, lines, line_number, in_block_comment,
                   findings, all_findings, had_error, stdout, stderr, opened,
                   scan_calls, exit_code>>

\* ReadError that ends the run at the file that cannot be read.
ReadError_stops ==
    /\ pc = "main"
    /\ file_idx < Len(files)
    /\ ~excluded(current)
    /\ ~current.readable
    /\ stderr' = Append(stderr, <<"Error reading", Path(current)>>)
    /\ had_error' = TRUE
    /\ file_idx' = Len(files)
    /\ opened' = Append(opened, Path(current))
    /\ UNCHANGED <<files, args, pc, lines, line_number, in_block_comment,
                   findings, all_findings, stdout, scan_calls, exit_code>>

\* ReadError that opens the file before the exclude patterns are looked at.
ReadError_before_exclude ==
    /\ pc = "main"
    /\ file_idx < Len(files)
    /\ ~current.readable
    /\ stderr' = Append(stderr, <<"Error reading", Path(current)>>)
    /\ had_error' = TRUE
    /\ file_idx' = file_idx + 1
    /\ opened' = Append(opened, Path(current))
    /\ UNCHANGED <<files, args, pc, lines, line_number, in_block_comment,
                   findings, all_findings, stdout, scan_calls, exit_code>>

\* main, lines 122-128: the file cannot be read.
ReadError ==
    /\ pc = "main"
    /\ file_idx < Len(files)
    /\ ~excluded(current)
    /\ ~current.readable
    /\ stderr' = Append(stderr, <<"Error reading", Path(current)>>)
    /\ had_error' = TRUE
    /\ file_idx' = file_idx + 1
    /\ opened' = Append(opened, Path(current))
    /\ UNCHANGED <<files, args, pc, lines, line_number, in_block_comment,
                   findings, all_findings, stdout, scan_calls, exit_code>>

\* initial_scan_state that keeps what the last scan left.
scan_state_left_over == in_block_comment

\* ScanState at the start of a file's scan.
initial_scan_state == FALSE

\* main, line 130, and the start of scan_file: the content is split into
\* lines, no finding yet, not inside a block comment.
BeginScan ==
    /\ pc = "main"
    /\ file_idx < Len(files)
    /\ ~excluded(current)
    /\ current.readable
    /\ pc' = "scan"
    /\ lines' = splitlines(current.content)
    /\ line_number' = 0
    /\ in_block_comment' = initial_scan_state
    /\ findings' = <<>>
    /\ opened' = Append(opened, Path(current))
    /\ scan_calls' = Append(scan_calls, Path(current))
    /\ UNCHANGED <<files, args, file_idx, all_findings, had_error, stdout, stderr,
                   exit_code>>

\* scan_file, one turn of its loop: the next line is scanned.
ScanLine ==
    /\ pc = "scan"
    /\ line_number < Len(lines)
    /\ LET r == scan_line(lines[line_number + 1], applicable(args.linters, current),
                          c_style_comments(current), in_block_comment)
           kept == keep_findings(r.found,
                                 segment(lines[line_number + 1], c_style_comments(current),
                                         in_block_comment),
                                 args.allow)
       IN  /\ findings' = findings \o to_findings(Path(current), line_number + 1, kept, 1)
           /\ in_block_comment' = r.carried
    /\ line_number' = line_number + 1
    /\ UNCHANGED <<files, args, pc, file_idx, lines, all_findings, had_error, stdout,
                   stderr, opened, scan_calls, exit_code>>

\* EndScan without the fail-fast exit.
EndScan_collects ==
    /\ pc = "scan"
    /\ line_number = Len(lines)
    /\ all_findings' = all_findings \o findings
    /\ file_idx' = file_idx + 1
    /\ pc' = "main"
    /\ UNCHANGED <<files, args, lines, line_number, in_block_comment, findings,
                   had_error, stdout, stderr, opened, scan_calls, exit_code>>

\* EndScan that puts the findings of a file before those of the earlier files.
EndScan_prepends ==
    /\ pc = "scan"
    /\ line_number = Len(lines)
    /\ IF findings # <<>> /\ args.fail_fast
       THEN /\ stdout' = IF args.quiet THEN stdout
                         ELSE stdout \o output_findings(<<findings[1]>>, args.json, args.count)
            /\ exit_code' = EXIT_FINDINGS
            /\ pc' = "done"
            /\ UNCHANGED <<file_idx, all_findings>>
       ELSE /\ all_findings' = findings \o all_findings
            /\ file_idx' = file_idx + 1
            /\ pc' = "main"
            /\ UNCHANGED <<stdout, exit_code>>
    /\ UNCHANGED <<files, args, lines, line_number, in_block_comment, findings,
                   had_error, stderr, opened, scan_calls>>

\* EndScan that ends a --fail-fast run at the first file scanned, findings
\* or none.
EndScan_exits_always ==
    /\ pc = "scan"
    /\ line_number = Len(lines)
    /\ IF args.fail_fast
       THEN /\ stdout' = IF args.quiet \/ findings = <<>> THEN stdout
                         ELSE stdout \o output_findings(<<findings[1]>>, args.json, args.count)
            /\ exit_code' = IF findings # <<>> THEN EXIT_FINDINGS ELSE EXIT_SUCCESS
            /\ pc' = "done"
            /\ UNCHANGED <<file_idx, all_findings>>
       ELSE /\ all_findings' = all_findings \o findings
            /\ file_idx' = file_idx + 1
            /\ pc' = "main"
            /\ UNCHANGED <<stdout, exit_code>>
    /\ UNCHANGED <<files, args, lines, line_number, in_block_comment, findings,
                   had_error, stderr, opened, scan_calls>>

\* scan_file returns; main, lines 132-137.
EndScan ==
    /\ pc = "scan"
    /\ line_number = Len(lines)
    /\ IF findings # <<>> /\ args.fail_fast
       THEN /\ stdout' = IF args.quiet THEN stdout
                         ELSE stdout \o output_findings(<<findings[1]>>, args.json, args.count)
            /\ exit_code' = EXIT_FINDINGS
            /\ pc' = "done"
            /\ UNCHANGED <<file_idx, all_findings>>
       ELSE /\ all_findings' = all_findings \o findings
            /\ file_idx' = file_idx + 1
            /\ pc' = "main"
            /\ UNCHANGED <<stdout, exit_code>>
    /\ UNCHANGED <<files, args, lines, line_number, in_block_comment, findings,
                   had_error, stderr, opened, scan_calls>>

\* exit_code_of with the read error tested before the findings.
exit_code_error_first(warn_only, fs, error) ==
    IF warn_only THEN EXIT_SUCCESS
    ELSE IF error THEN EXIT_ERROR
    ELSE IF fs # <<>> THEN EXIT_FINDINGS
    ELSE EXIT_SUCCESS

\* main, lines 143-153: the exit code of a run that reached the end of the loop.
exit_code_of(warn_only, fs, error) ==
    IF warn_only THEN EXIT_SUCCESS
    ELSE IF fs # <<>> THEN EXIT_FINDINGS
    ELSE IF error THEN EXIT_ERROR
    ELSE EXIT_SUCCESS

\* main, lines 139-153: the output and the exit code.
Exit ==
    /\ pc = "main"
    /\ file_idx = Len(files)
    /\ stdout' = IF args.quiet THEN stdout
                 ELSE stdout \o output_findings(all_findings, args.json, args.count)
    /\ exit_code' = exit_code_of(args.warn_only, all_findings, had_error)
    /\ pc' = "done"
    /\ UNCHANGED <<files, args, file_idx, lines, line_number, in_block_comment,
                   findings, all_findings, had_error, stderr, opened, scan_calls>>

Next ==
    \/ ParseLinters
    \/ SkipExcluded
    \/ ReadError
    \/ BeginScan
    \/ ScanLine
    \/ EndScan
    \/ Exit

(***************************************************************************)
(* The runs checked.  A run is a command line and the files it names.      *)
(* The contents of a run are drawn as one sequence of words of a           *)
(* vocabulary, a word being one or several atoms; FS ends a file and NL a   *)
(* line.                                                                   *)
(***************************************************************************)
\* Words per run in the pattern vocabularies.
MaxWords == 4
\* Atoms per run in the lexical vocabularies.
MaxAtoms == 5
\* Files per run in the command-line runs.
MaxFiles == 2

FS == "<FS>"

SeqsUpTo(S, n) == UNION {[1 .. k -> S] : k \in 0 .. n}

RECURSIVE Flatten(_)
Flatten(ws) == IF ws = <<>> THEN <<>> ELSE Head(ws) \o Flatten(Tail(ws))

RECURSIVE SplitFiles(_)
\* The contents of the files of a flat input: FS separates two files.
SplitFiles(flat) ==
    LET seps == {i \in 1 .. Len(flat) : flat[i] = FS}
    IN  IF seps = {} THEN <<flat>>
        ELSE LET n == CHOOSE i \in seps : \A j \in seps : i <= j
             IN  <<SubSeq(flat, 1, n - 1)>> \o SplitFiles(SubSeq(flat, n + 1, Len(flat)))

Stems == <<"a", "b", "c", "d", "e", "f", "g", "h", "i", "j">>

File(stem, ext, content, readable) ==
    [stem |-> stem, ext |-> ext, content |-> content, readable |-> readable]

\* The readable files of a flat input, all of one extension.
FilesOf(flat, ext) ==
    LET cs == SplitFiles(flat)
    IN  [i \in 1 .. Len(cs) |-> File(Stems[i], ext, cs[i], TRUE)]

\* A command line with the requested tools and no option.
PlainArgs(linters) ==
    [linters |-> linters, exclude |-> {}, allow |-> {}, quiet |-> FALSE, count |-> FALSE,
     json |-> FALSE, fail_fast |-> FALSE, warn_only |-> FALSE]

\* The state main starts in.
Start ==
    /\ pc = "start"
    /\ file_idx = 0
    /\ lines = <<>>
    /\ line_number = 0
    /\ in_block_comment = FALSE
    /\ findings = <<>>
    /\ all_findings = <<>>
    /\ had_error = FALSE
    /\ stdout = <<>>
    /\ stderr = <<>>
    /\ opened = <<>>
    /\ scan_calls = <<>>
    /\ exit_code = -1

Vocabulary(ext, words, linter_sets) == [ext |-> ext, words |-> words, linter_sets |-> linter_sets]

\* The words of a set of atoms.
Atoms(S) == {<<a>> : a \in S}

\* The runs over a set of vocabularies, of at most n words each.
VocabularyRuns(vocabularies, n) ==
    \E v \in vocabularies :
        /\ \E ws \in SeqsUpTo(v.words, n) : files = FilesOf(Flatten(ws), v.ext)
        /\ \E ls \in v.linter_sets : args = PlainArgs(ls)

\* Runs that exercise the options of the command line on a few small files.
CliFiles ==
    {File("a", "py", <<HASH, "pylint:", "disable">>, TRUE),
     File("b", "py", <<"x">>, TRUE),
     File("c", "py", <<>>, FALSE)}

CliArgs ==
    {a \in [linters : {{"pylint"}, {"pylint", "bogus"}},
            exclude : {{}, {[stem |-> "a", ext |-> "*"]}},
            allow : {{}},
            quiet : BOOLEAN, count : BOOLEAN, json : BOOLEAN,
            fail_fast : BOOLEAN, warn_only : BOOLEAN] :
        /\ Cardinality({o \in {"quiet", "count", "json"} : a[o]}) <= 1
        /\ ~(a.fail_fast /\ a.warn_only)}

CliRuns ==
    /\ files \in SeqsUpTo(CliFiles, MaxFiles) \ {<<>>}
    /\ args \in CliArgs

\* Pattern vocabularies: directives in comment text, several to a line.
W(a) == <<a>>

PylintVocabulary ==
    Vocabulary("py",
               {W(HASH), <<"pylint:", "disable">>, W("-next"), W("-line"),
                <<"pylint:", SP, "skip", "-file">>, <<"type:", "ignore">>},
               {{"pylint"}, {"pylint", "mypy"}, {"mypy", "yamllint"}})

YamllintVocabulary ==
    Vocabulary("yaml",
               {W(HASH), <<"yamllint", SP, "disable">>, W("-line"), W("-file"),
                <<"pylint:", "disable">>},
               {{"yamllint"}, {"yamllint", "pylint"}})

ClangTidyVocabulary ==
    Vocabulary("cpp",
               {W(LINE_C), W("NOLINT"), W("NEXTLINE"), W("BEGIN"), W("x"),
                <<"clang-format", SP, "off">>},
               {{"clang-tidy"}, {"clang-tidy", "clang-format"}, {"clang-format", "mypy"}})

PatternVocabularies == {PylintVocabulary, YamllintVocabulary, ClangTidyVocabulary}

InitPat == Start /\ (VocabularyRuns(PatternVocabularies, MaxWords) \/ CliRuns)

SpecPat == InitPat /\ [][Next]_vars

(***************************************************************************)
(* What the claims speak of                                                *)
(***************************************************************************)
RECURSIVE carried_before(_)
\* The block-comment state line n of the file being scanned starts in.
carried_before(n) ==
    IF n = 1 THEN FALSE
    ELSE segment(lines[n - 1], c_style_comments(current), carried_before(n - 1)).carried

\* The segments of line n of the file being scanned.
segments_of(n) == segment(lines[n], c_style_comments(current), carried_before(n))

\* The findings of line n of the file being scanned.
found_at(n) == {i \in 1 .. Len(findings) : findings[i].line_number = n}

\* The lines scan_file has scanned so far.
scanned == IF pc = "scan" THEN 1 .. line_number ELSE {}

\* The registry entry of a tool.
entry_of(tool) == CHOOSE e \in {REGISTRY[i] : i \in 1 .. Len(REGISTRY)} : e.tool = tool

\* The text a tool's patterns are matched against on line n.
text_for(tool, n) ==
    IF tool \in CODE_TOOLS THEN segments_of(n).code ELSE segments_of(n).comment

\* The indexes of the tool's patterns that match the text.
matching(tool, text) ==
    LET ps == entry_of(tool).patterns IN {k \in 1 .. Len(ps) : search(ps[k].re, text)}

\* Whether the atoms occur in the text one after the other, in any letter case.
Contains(text, atoms) ==
    \E i \in 0 .. (Len(text) - Len(atoms)) :
        \A k \in 1 .. Len(atoms) : Lower(text[i + k]) = atoms[k]

(***************************************************************************)
(* C1: the findings of one file hold at most one Finding for any           *)
(* (line_number, tool), however many of the tool's directives the line     *)
(* holds.                                                                  *)
(***************************************************************************)
C1_OneFindingPerLineAndTool ==
    \A i, j \in 1 .. Len(findings) :
        (/\ findings[i].line_number = findings[j].line_number
         /\ findings[i].tool = findings[j].tool) => i = j

\* A scanned line on which two patterns of a requested tool match, with its finding.
C1_Witness ==
    \E n \in scanned : \E i \in found_at(n) :
        /\ findings[i].tool \in {"yamllint", "pylint"}
        /\ Cardinality(matching(findings[i].tool, text_for(findings[i].tool, n))) >= 2

(***************************************************************************)
(* C2: the label of a finding is that of the first pattern, in the order   *)
(* of the tool's registry, that matches the line's text, wherever the      *)
(* occurrences sit: a line with a suffixed form (disable-next,             *)
(* disable-line, disable-file, NOLINTNEXTLINE, NOLINTBEGIN) is never       *)
(* reported under the bare label, and a line with the tool's first form    *)
(* is reported under that label.                                           *)
(***************************************************************************)
Form(tool, atoms, label) == [tool |-> tool, atoms |-> atoms, label |-> label]

\* The first form of each tool with a bare form.
C2_FirstForms ==
    {Form("yamllint", <<"yamllint", SP, "disable", "-line">>, "yamllint disable-line"),
     Form("pylint", <<"pylint:", "disable", "-next">>, "pylint: disable-next"),
     Form("clang-tidy", <<"nolint", "nextline">>, "NOLINTNEXTLINE")}

C2_SuffixedForms ==
    C2_FirstForms \cup
    {Form("yamllint", <<"yamllint", SP, "disable", "-file">>, "yamllint disable-file"),
     Form("pylint", <<"pylint:", "disable", "-line">>, "pylint: disable-line"),
     Form("clang-tidy", <<"nolint", "begin">>, "NOLINTBEGIN")}

C2_BareLabels == {"yamllint disable", "pylint: disable", "NOLINT"}

C2_FirstMatchingPatternLabels ==
    \A n \in scanned : \A i \in found_at(n) :
        LET f == findings[i]
            text == text_for(f.tool, n)
            ms == matching(f.tool, text)
        IN  /\ ms # {}
            /\ \E k \in ms :
                /\ \A j \in ms : k <= j
                /\ f.directive = entry_of(f.tool).patterns[k].directive
            /\ \A s \in C2_SuffixedForms :
                (s.tool = f.tool /\ Contains(text, s.atoms)) => f.directive \notin C2_BareLabels
            /\ \A s \in C2_FirstForms :
                (s.tool = f.tool /\ Contains(text, s.atoms)) => f.directive = s.label

\* 'pylint: disable' and later 'pylint: disable-next' on a line reported as disable-next.
C2_Witness ==
    \E n \in scanned : \E i \in found_at(n) :
        /\ findings[i].directive = "pylint: disable-next"
        /\ \E a \in 1 .. Len(lines[n]) : \E b \in (a + 1) .. Len(lines[n]) :
            /\ MatchFrom(PYLINT_PATTERNS[4].re, 1, lines[n], a)
            /\ MatchFrom(PYLINT_PATTERNS[1].re, 1, lines[n], b)

EnableVocabularies ==
    {Vocabulary("py",
                {W(HASH), W("pylint:"), W("PYLINT:"), W("enable"), W("ENABLE"),
                 W("-next"), W(SP), W("disable")},
                {{"pylint"}}),
     Vocabulary("yaml",
                {W(HASH), <<"yamllint", SP>>, <<"YAMLLINT", TAB>>, W("enable"), W("Enable"),
                 W("-line"), W("-file"), W("disable")},
                {{"yamllint"}}),
     Vocabulary("cpp",
                {W(LINE_C), W("NOLINT"), W("NoLint"), W("END"), W("End"),
                 <<"clang-format", SP>>, W("on"), W("ON"), W("off")},
                {{"clang-tidy", "clang-format"}})}

InitEnable == Start /\ (VocabularyRuns(EnableVocabularies, MaxWords) \/ CliRuns)

SpecEnable == InitEnable /\ [][Next]_vars

\* The words that make a disabling directive of their tool's marker.
C3_DisablingWords == {"disable", "skip", "ignore", "off", "nextline", "begin", "pragma"}

\* The line has no disabling word, and each NOLINT is a NOLINTEND.
C3_OnlyEnable(line) ==
    \A i \in 1 .. Len(line) :
        /\ Lower(line[i]) \notin C3_DisablingWords
        /\ Lower(line[i]) = "nolint" => (i < Len(line) /\ Lower(line[i + 1]) = "end")

C3_EnableForms ==
    {Form("yamllint", <<"yamllint", TAB, "enable">>, ""),
     Form("yamllint", <<"yamllint", SP, "enable", "-line">>, ""),
     Form("yamllint", <<"yamllint", SP, "enable", "-file">>, ""),
     Form("pylint", <<"pylint:", "enable">>, ""),
     Form("pylint", <<"pylint:", SP, "enable", "-next">>, ""),
     Form("clang-tidy", <<"nolint", "end">>, ""),
     Form("clang-format", <<"clang-format", SP, "on">>, "")}

C3_EnableYieldsNoFinding ==
    \A n \in scanned : C3_OnlyEnable(lines[n]) => found_at(n) = {}

\* A scanned comment with a re-enable counterpart of a requested tool, not in
\* lower case, and no disabling word.
C3_Witness ==
    \E n \in scanned : \E s \in C3_EnableForms :
        /\ s.tool \in applicable(args.linters, current) \cap {"yamllint", "pylint"}
        /\ Contains(segments_of(n).comment, s.atoms)
        /\ \E i \in 1 .. Len(lines[n]) : Lower(lines[n][i]) # lines[n][i]
        /\ C3_OnlyEnable(lines[n])
        /\ found_at(n) = {}

(***************************************************************************)
(* Lexical vocabularies: literals, comments and line ends around a         *)
(* directive.                                                              *)
(***************************************************************************)
PRAGMA == <<"#", "pragma", SP, "clang", SP, "diagnostic", SP, "ignored">>

EscapeVocabularies ==
    {Vocabulary("cpp", Atoms({DQ, BS, LINE_C, "NOLINT"}), {{"clang-tidy"}}),
     Vocabulary("c", Atoms({SQ, BS, LINE_C, "NOLINT"}), {{"clang-tidy"}})}

LexicalVocabularies ==
    {Vocabulary("cpp", Atoms({DQ, SQ, LINE_C, "NOLINT", NL}), {{"clang-tidy"}}),
     Vocabulary("h", Atoms({BLOCK_OPEN, BLOCK_CLOSE, "NOLINT", NL, FS}), {{"clang-tidy"}}),
     Vocabulary("py", Atoms({DQ, SQ, HASH, NL}) \cup {<<"type:", "ignore">>}, {{"mypy"}}),
     Vocabulary("cpp", Atoms({BLOCK_OPEN, BLOCK_CLOSE, "NOLINT", NL}) \cup {PRAGMA},
                {{"clang-diagnostic", "clang-tidy"}}),
     Vocabulary("c", Atoms({BLOCK_OPEN, BLOCK_CLOSE, LINE_C, "NOLINT", "x"}),
                {{"clang-tidy"}})}

InitSeg ==
    Start /\ \/ VocabularyRuns(LexicalVocabularies, MaxAtoms)
             \/ VocabularyRuns(EscapeVocabularies, MaxAtoms + 1)
             \/ CliRuns

SpecSeg == InitSeg /\ [][Next]_vars

QUOTES == {DQ, SQ}

\* The comment markers of a mode, and those that open a comment to the line end.
Markers(c_style) == IF c_style THEN {LINE_C, BLOCK_OPEN} ELSE {HASH}

LineMarkers(c_style) == IF c_style THEN {LINE_C} ELSE {HASH}

\* Atoms i..j of the line are a literal with no backslash in it.
SimpleLiteral(line, i, j) ==
    /\ i < j
    /\ line[i] \in QUOTES
    /\ line[j] = line[i]
    /\ \A k \in (i + 1) .. (j - 1) : line[k] \notin {line[i], BS}

\* Code text outside literals: no quote, comment marker or backslash.
PlainCode(line, from, to, c_style) ==
    \A k \in from .. to : line[k] \notin (QUOTES \cup Markers(c_style) \cup {BS})

\* No pattern of any tool matches the text.
NoDirective(text) == \A t \in TOOLS : matching(t, text) = {}

\* No line before line n opens a block comment.
NoBlockBefore(n) == \A k \in 1 .. (n - 1) : \A i \in 1 .. Len(lines[k]) : lines[k][i] # BLOCK_OPEN

\* The findings of a tool on line n.
found_of(t, n) == {i \in found_at(n) : findings[i].tool = t}

(***************************************************************************)
(* C5: directive-shaped text inside a string or char literal yields no     *)
(* finding for the line, and a directive in a comment that follows a       *)
(* closed literal on the same line yields exactly one finding, in          *)
(* line-oriented and in C-family mode.                                     *)
(***************************************************************************)
\* The line is code with one literal; any directive-shaped text is inside it.
C5_LiteralOnly(line, c_style) ==
    \E i, j \in 1 .. Len(line) :
        /\ SimpleLiteral(line, i, j)
        /\ PlainCode(line, 1, i - 1, c_style)
        /\ PlainCode(line, j + 1, Len(line), c_style)
        /\ NoDirective(SubSeq(line, 1, i - 1))
        /\ NoDirective(SubSeq(line, j + 1, Len(line)))

\* The line is code with one literal, then a comment to the line end in which
\* a pattern of tool t matches.
C5_CommentAfterLiteral(line, c_style, t) ==
    \E i, j, m \in 1 .. Len(line) :
        /\ SimpleLiteral(line, i, j)
        /\ j < m
        /\ PlainCode(line, 1, i - 1, c_style)
        /\ PlainCode(line, j + 1, m - 1, c_style)
        /\ line[m] \in LineMarkers(c_style)
        /\ matching(t, SubSeq(line, m + 1, Len(line))) # {}

C6_NoReachableMarker(line, c_style) ==
    \/ \A k \in 1 .. Len(line) : line[k] \notin Markers(c_style)
    \/ \E i, j \in 1 .. Len(line) :
        /\ SimpleLiteral(line, i, j)
        /\ PlainCode(line, 1, i - 1, c_style)
        /\ PlainCode(line, j + 1, Len(line), c_style)

C6_Case(n) == NoBlockBefore(n) /\ C6_NoReachableMarker(lines[n], c_style_comments(current))

Delimiters == {LINE_C, BLOCK_OPEN, BLOCK_CLOSE}

DelimitersOf(line) == {k \in 1 .. Len(line) : line[k] \in Delimiters \cup QUOTES \cup {BS}}

\* The file being scanned has the block comment on lines N .. N+2: the only
\* delimiter of line N opens it, line N+1 has none, the first of line N+2
\* closes it, and a directive of exactly one requested tool is on line N+1,
\* none on any other line.
C7_Shape(N) ==
    /\ N >= 1
    /\ N + 2 <= Len(lines)
    /\ c_style_comments(current)
    /\ NoBlockBefore(N)
    /\ \E k \in 1 .. Len(lines[N]) : DelimitersOf(lines[N]) = {k} /\ lines[N][k] = BLOCK_OPEN
    /\ DelimitersOf(lines[N + 1]) = {}
    /\ \E k \in DelimitersOf(lines[N + 2]) :
        /\ lines[N + 2][k] = BLOCK_CLOSE
        /\ \A j \in DelimitersOf(lines[N + 2]) : k <= j
    /\ Cardinality({t \in applicable(args.linters, current) \ CODE_TOOLS :
                       matching(t, lines[N + 1]) # {}}) = 1
    /\ \A n \in (1 .. Len(lines)) \ {N + 1} : NoDirective(lines[n])

scan_complete == pc = "scan" /\ line_number = Len(lines)

RECURSIVE scan_lines(_, _, _, _, _)
\* scan_file's loop from line n on, entered in the given block-comment state.
scan_lines(file, linters, allow, n, carried) ==
    LET ls == splitlines(file.content)
    IN  IF n > Len(ls) THEN <<>>
        ELSE LET r == scan_line(ls[n], applicable(linters, file), c_style_comments(file),
                                carried)
                 seg == segment(ls[n], c_style_comments(file), carried)
             IN  to_findings(Path(file), n, keep_findings(r.found, seg, allow), 1)
                     \o scan_lines(file, linters, allow, n + 1, r.carried)

\* scan_file: the findings of one file scanned on its own.
scan_file(file, linters, allow) == scan_lines(file, linters, allow, 1, FALSE)

RECURSIVE ends_in_block_comment(_, _, _)
\* The block-comment state in which the scan of a file ends.
ends_in_block_comment(file, n, carried) ==
    LET ls == splitlines(file.content)
    IN  IF n > Len(ls) THEN carried
        ELSE ends_in_block_comment(file, n + 1,
                 segment(ls[n], c_style_comments(file), carried).carried)

C9_Unterminated(line, c_style) ==
    \E i \in 1 .. Len(line) :
        /\ line[i] \in QUOTES
        /\ PlainCode(line, 1, i - 1, c_style)
        /\ \A k \in (i + 1) .. Len(line) : line[k] \notin {line[i], BS}

\* Code, then a comment to the line end in which a pattern of tool t matches.
C9_CommentDirective(line, c_style, t) ==
    \E m \in 1 .. Len(line) :
        /\ PlainCode(line, 1, m - 1, c_style)
        /\ line[m] \in LineMarkers(c_style)
        /\ matching(t, SubSeq(line, m + 1, Len(line))) # {}

C9_After(n) ==
    /\ n >= 2
    /\ NoBlockBefore(n - 1)
    /\ C9_Unterminated(lines[n - 1], c_style_comments(current))

C10_Literal(line, i, e, j, x) ==
    /\ i < e
    /\ e + 1 < j
    /\ line[i] \in QUOTES
    /\ line[j] = line[i]
    /\ line[e] = BS
    /\ line[e + 1] = x
    /\ \A k \in ((i + 1) .. (e - 1)) \cup ((e + 2) .. (j - 1)) : line[k] \notin {line[i], BS}

\* Code with one literal that holds an escaped quote or an escaped backslash.
C10_EscapeInLiteral(line) ==
    \E i, e, j \in 1 .. Len(line) :
        /\ C10_Literal(line, i, e, j, line[i]) \/ C10_Literal(line, i, e, j, BS)
        /\ PlainCode(line, 1, i - 1, TRUE)
        /\ PlainCode(line, j + 1, Len(line), TRUE)
        /\ NoDirective(SubSeq(line, 1, i - 1))
        /\ NoDirective(SubSeq(line, j + 1, Len(line)))

\* Code with a literal that ends in an escaped backslash, then a comment to
\* the line end in which a pattern of tool t matches.
C10_CommentAfterEscapedBackslash(line, t) ==
    \E i, j, m \in 1 .. Len(line) :
        /\ i + 2 < j
        /\ C10_Literal(line, i, j - 2, j, BS)
        /\ j < m
        /\ PlainCode(line, 1, i - 1, TRUE)
        /\ PlainCode(line, j + 1, m - 1, TRUE)
        /\ line[m] = LINE_C
        /\ matching(t, SubSeq(line, m + 1, Len(line))) # {}

C11_ClosedBlock(line, a, b) ==
    /\ a < b
    /\ line[a] = BLOCK_OPEN
    /\ line[b] = BLOCK_CLOSE
    /\ \A k \in (a + 1) .. (b - 1) : line[k] # BLOCK_CLOSE

\* Code, a closed block comment, code, then a line comment in which a
\* pattern of tool t matches.
C11_BlockThenLineComment(line, t) ==
    \E a, b, m \in 1 .. Len(line) :
        /\ C11_ClosedBlock(line, a, b)
        /\ b < m
        /\ PlainCode(line, 1, a - 1, TRUE)
        /\ PlainCode(line, b + 1, m - 1, TRUE)
        /\ line[m] = LINE_C
        /\ matching(t, SubSeq(line, m + 1, Len(line))) # {}

\* Code with two closed block comments in it, and no directive anywhere.
C11_TwoBlocksNoDirective(line) ==
    \E a, b, c, d \in 1 .. Len(line) :
        /\ C11_ClosedBlock(line, a, b)
        /\ b < c
        /\ C11_ClosedBlock(line, c, d)
        /\ PlainCode(line, 1, a - 1, TRUE)
        /\ PlainCode(line, b + 1, c - 1, TRUE)
        /\ PlainCode(line, d + 1, Len(line), TRUE)
        /\ \A k \in 1 .. Len(line) : NoDirective(<<line[k]>>)
        /\ NoDirective(line)

AllowVocabulary(ext, words, linters, allow_sets) ==
    [ext |-> ext, words |-> words, linters |-> linters, allow_sets |-> allow_sets]

IGNORE_IMPORT == <<"type:", SP, "ignore", "[import]">>

NOLINT_BUGPRONE == <<"NOLINT", "(bugprone-*)">>

AllowVocabularies ==
    {AllowVocabulary("py",
                     {<<HASH, "type:", SP, "ignore">>, W("[import]"),
                      <<HASH, "pylint:", SP, "disable", "=", "too-many-arguments">>,
                      W(SP), W(NL)},
                     {"pylint", "mypy"},
                     {{IGNORE_IMPORT}, {<<"too-many-arguments">>},
                      {IGNORE_IMPORT, <<"too-many-arguments">>}}),
     AllowVocabulary("cpp",
                     {<<LINE_C, "NOLINT">>, W("(bugprone-*)"),
                      <<LINE_C, "clang-format", SP, "off">>, W(SP), W(NL)},
                     {"clang-tidy", "clang-format"},
                     {{NOLINT_BUGPRONE}, {<<"clang-format", SP, "off">>}})}

\* The runs over the allow vocabularies, of at most n words each.
AllowRuns(n) ==
    \E v \in AllowVocabularies :
        /\ \E ws \in SeqsUpTo(v.words, n) : files = FilesOf(Flatten(ws), v.ext)
        /\ \E allow \in v.allow_sets : args = [PlainArgs(v.linters) EXCEPT !.allow = allow]

InitAllow == Start /\ (AllowRuns(MaxWords) \/ CliRuns)

SpecAllow == InitAllow /\ [][Next]_vars

\* The findings a tool has on line n when nothing is allowed.
unfiltered(n) ==
    scan_line(lines[n], applicable(args.linters, current), c_style_comments(current),
              carried_before(n)).found

\* The rendered directive text of the finding of tool t on line n.
rendered(t, n) ==
    LET ps == entry_of(t).patterns
        k == CHOOSE i \in matching(t, text_for(t, n)) :
                 \A j \in matching(t, text_for(t, n)) : i <= j
    IN  directive_text(ps[k].re, text_for(t, n))

\* The tools whose patterns match on line n.
matched_tools(n) ==
    {t \in applicable(args.linters, current) : matching(t, text_for(t, n)) # {}}

(***************************************************************************)
(* C12: a finding whose rendered directive text matches an allow-pattern   *)
(* is omitted; a finding on another line that matches none remains; an     *)
(* allow-pattern naming a more specific directive (type: ignore[import],   *)
(* NOLINT with a list of checks) does not suppress the plain directive.    *)
(***************************************************************************)
\* The plain directives, and the more specific allow-pattern of each.
C12_Plain ==
    {[tool |-> "mypy", text |-> <<"type:", SP, "ignore">>, specific |-> IGNORE_IMPORT],
     [tool |-> "clang-tidy", text |-> <<"NOLINT">>, specific |-> NOLINT_BUGPRONE]}

C13_Case(n, t, u) ==
    /\ t # u
    /\ {t, u} \subseteq matched_tools(n)
    /\ \E pattern \in args.allow : pattern_in(rendered(t, n), pattern)
    /\ \A pattern \in args.allow : ~pattern_in(rendered(u, n), pattern)

TWO_DIRECTIVES == <<HASH, "pylint:", "disable", NL, HASH, "pylint:", "disable", "-next">>

RunFiles ==
    {File("a", "py", TWO_DIRECTIVES, TRUE),
     File("b", "py", <<HASH, "NOLINT", SP, "pylint:", "disable">>, TRUE),
     File("c", "py", <<>>, FALSE),
     File("d", "txt", <<HASH, "pylint:", "disable">>, TRUE),
     File("e", "cpp", <<LINE_C, "NOLINT">>, TRUE)}

RunArgs ==
    {a \in [linters : {{"pylint"}, {"clang-tidy"}, {"pylint", "bogus"}, {}},
            exclude : {{}, {[stem |-> "a", ext |-> "*"]}, {[stem |-> "c", ext |-> "py"]}},
            allow : {{}},
            quiet : BOOLEAN, count : BOOLEAN, json : BOOLEAN,
            fail_fast : BOOLEAN, warn_only : BOOLEAN] :
        /\ Cardinality({o \in {"quiet", "count", "json"} : a[o]}) <= 1
        /\ ~(a.fail_fast /\ a.warn_only)}

InitCli ==
    /\ Start
    /\ files \in SeqsUpTo(RunFiles, MaxFiles + 1) \ {<<>>}
    /\ args \in RunArgs

SpecCli == InitCli /\ [][Next]_vars

\* The tool list is valid: not empty, every tool known.
linters_valid == args.linters # {} /\ args.linters \subseteq TOOLS

\* The files of the run that main reads: those no exclude pattern matches.
read_files == SelectSeq(files, LAMBDA f : ~excluded(f))

\* The files of the run that main scans.
scanned_files == SelectSeq(read_files, LAMBDA f : f.readable)

RECURSIVE findings_of(_, _)
\* The findings of the files fs, from index k on, each scanned on its own.
findings_of(fs, k) ==
    IF k > Len(fs) THEN <<>>
    ELSE scan_file(fs[k], args.linters, args.allow) \o findings_of(fs, k + 1)

paths_of(fs) == [i \in 1 .. Len(fs) |-> Path(fs[i])]

\* What main prints for the findings fs.
printed(fs) == IF args.quiet THEN <<>> ELSE output_findings(fs, args.json, args.count)

\* The run went through the whole file list.
completed == pc = "done" /\ linters_valid /\ file_idx = Len(files)

\* The indexes of the files whose scan returns findings.
with_findings ==
    {i \in 1 .. Len(files) :
        /\ ~excluded(files[i])
        /\ files[i].readable
        /\ scan_file(files[i], args.linters, args.allow) # <<>>}

\* The indexes of the files that cannot be read.
read_failures == {i \in 1 .. Len(files) : ~excluded(files[i]) /\ ~files[i].readable}

(***************************************************************************)
(* C14: when main completes a run without --warn-only, the exit code is 1  *)
(* if any finding was collected, even if a file could not be read          *)
(* wherever it is in the list, otherwise 2 if a read failed, otherwise 0.  *)
(***************************************************************************)
C14_ExitCodePrecedence ==
    (completed /\ ~args.warn_only) =>
        /\ all_findings = findings_of(scanned_files, 1)
        /\ exit_code = IF with_findings # {} THEN EXIT_FINDINGS
                       ELSE IF read_failures # {} THEN EXIT_ERROR
                       ELSE EXIT_SUCCESS

\* A completed run with a file that could not be read before and another
\* after a file with findings; the exit code is 1.
C14_Witness ==
    /\ completed
    /\ ~args.warn_only
    /\ \E i, j, k \in 1 .. Len(files) :
        i < j /\ j < k /\ {i, k} \subseteq read_failures /\ j \in with_findings
    /\ exit_code = EXIT_FINDINGS

(***************************************************************************)
(* C15: with --warn-only the process always exits 0, whether findings      *)
(* exist, a read failed or a usage error occurred, and the findings are    *)
(* still written to stdout.                                                *)
(***************************************************************************)
C15_WarnOnlyExitsZero ==
    (pc = "done" /\ args.warn_only) =>
        /\ exit_code = EXIT_SUCCESS
        /\ linters_valid => stdout = printed(findings_of(scanned_files, 1))

(***************************************************************************)
(* C16: with --fail-fast main stops at the first file whose scan returns   *)
(* findings: it writes that file's first finding and no other (nothing     *)
(* under --quiet), exits 1, and opens and scans no later file.             *)
(***************************************************************************)
\* The files up to the first one whose scan returns findings.
C16_UpToFirst ==
    LET k == CHOOSE i \in with_findings : \A j \in with_findings : i <= j
    IN  SubSeq(files, 1, k)

C16_First == scan_file(C16_UpToFirst[Len(C16_UpToFirst)], args.linters, args.allow)[1]

C16_FailFastStopsAtFirstFinding ==
    (pc = "done" /\ args.fail_fast /\ linters_valid /\ with_findings # {}) =>
        /\ stdout = printed(<<C16_First>>)
        /\ (~args.quiet /\ ~args.json /\ ~args.count) => stdout = <<Str(C16_First)>>
        /\ exit_code = EXIT_FINDINGS
        /\ file_idx = Len(C16_UpToFirst) - 1
        /\ opened = paths_of(SelectSeq(C16_UpToFirst, LAMBDA f : ~excluded(f)))
        /\ scan_calls = paths_of(SelectSeq(C16_UpToFirst,
                                           LAMBDA f : ~excluded(f) /\ f.readable))

\* A fail-fast run that ended at a file with two findings, with a file with
\* findings after it; one finding was written.
C16_Witness ==
    /\ pc = "done"
    /\ args.fail_fast
    /\ ~args.quiet /\ ~args.json /\ ~args.count
    /\ Len(findings) = 2
    /\ \E j \in with_findings : j > file_idx + 1
    /\ Len(stdout) = 1
    /\ exit_code = EXIT_FINDINGS

(***************************************************************************)
(* C17: a read failure of a file is reported on stderr, never on stdout,   *)
(* and does not stop the run: every later file that is not excluded is     *)
(* still read and scanned, and its findings are in the findings output.    *)
(***************************************************************************)
\* What main prints on stderr for the files that cannot be read.
C17_Errors ==
    LET failed == SelectSeq(read_files, LAMBDA f : ~f.readable)
    IN  [i \in 1 .. Len(failed) |-> <<"Error reading", Path(failed[i])>>]

C17_ReadFailureDoesNotStopTheRun ==
    (pc = "done" /\ linters_valid /\ ~(args.fail_fast /\ with_findings # {})) =>
        /\ stderr = C17_Errors
        /\ opened = paths_of(read_files)
        /\ scan_calls = paths_of(scanned_files)
        /\ all_findings = findings_of(scanned_files, 1)
        /\ stdout = printed(findings_of(scanned_files, 1))

\* A finished run in which a file could not be read and a later file was
\* scanned; its findings are on stdout, the error on stderr.
C17_Witness ==
    /\ pc = "done"
    /\ linters_valid
    /\ ~args.quiet /\ ~args.json /\ ~args.count
    /\ \E i \in read_failures : \E j \in with_findings :
        /\ i < j
        /\ \E k \in 1 .. Len(all_findings) : all_findings[k].path = Path(files[j])
        /\ \E k \in 1 .. Len(stdout) : stdout[k][1] = Path(files[j])
    /\ Len(stderr) = 1

(***************************************************************************)
(* C18: a tool list with an unrecognized identifier, or made of commas     *)
(* only, is fatal before any scanning starts: main exits 2, no file is     *)
(* opened or scanned and no finding is written.                            *)
(***************************************************************************)
\* The tool list names an unknown tool or no tool at all.
C18_Unrecognized == args.linters = {} \/ ~(args.linters \subseteq TOOLS)

C18_UnknownToolIsFatal ==
    C18_Unrecognized =>
        /\ opened = <<>>
        /\ scan_calls = <<>>
        /\ findings = <<>>
        /\ all_findings = <<>>
        /\ stdout = <<>>
        /\ pc \in {"start", "done"}
        /\ pc = "done" => exit_code = EXIT_ERROR

\* main has exited on a tool list with no tool in it, the first file of the
\* run holding directives.
C18_Witness ==
    /\ pc = "done"
    /\ args.linters = {}
    /\ files[1].readable
    /\ files[1].content = TWO_DIRECTIVES
    /\ exit_code = EXIT_ERROR
    /\ stdout = <<>>

(***************************************************************************)
(* C19: a path that matches an --exclude glob is skipped: scan_file is     *)
(* never called for it, and it adds no finding to the output, the count    *)
(* or the exit code; the other paths of the run are scanned as usual.      *)
(***************************************************************************)
\* An exclude glob of the command line matches the path.
C19_Matches(path) == \E pattern \in args.exclude : fnmatch(path, pattern)

\* The files of the run that no exclude glob matches.
C19_Others == SelectSeq(files, LAMBDA f : ~C19_Matches(Path(f)))

C19_Scanned == SelectSeq(C19_Others, LAMBDA f : f.readable)

C19_ExcludedPathsAreSkipped ==
    /\ \A i \in 1 .. Len(opened) : ~C19_Matches(opened[i])
    /\ \A i \in 1 .. Len(scan_calls) : ~C19_Matches(scan_calls[i])
    /\ \A i \in 1 .. Len(findings) : ~C19_Matches(findings[i].path)
    /\ \A i \in 1 .. Len(all_findings) : ~C19_Matches(all_findings[i].path)
    /\ completed =>
        /\ scan_calls = paths_of(C19_Scanned)
        /\ all_findings = findings_of(C19_Scanned, 1)
        /\ stdout = printed(findings_of(C19_Scanned, 1))
        /\ exit_code = exit_code_of(args.warn_only, findings_of(C19_Scanned, 1),
                                    \E i \in 1 .. Len(C19_Others) : ~C19_Others[i].readable)

\* A completed run with an excluded file that holds directives and a scanned
\* file with findings.
C19_Witness ==
    /\ completed
    /\ \E i, j \in 1 .. Len(files) :
        /\ C19_Matches(Path(files[i]))
        /\ files[i].readable
        /\ scan_file(files[i], args.linters, args.allow) # <<>>
        /\ j \in with_findings
        /\ \E k \in 1 .. Len(scan_calls) : scan_calls[k] = Path(files[j])
    /\ all_findings # <<>>

(***************************************************************************)
(* C20: a file is scanned only for the tools applicable to its extension:  *)
(* scan_file is not called for a file whose extension is relevant to none  *)
(* of the requested tools, and the C-family tools have findings only in    *)
(* files with the extensions c, h and cpp.                                 *)
(***************************************************************************)
C20_CFamilyTools == {"clang-tidy", "clang-format", "clang-diagnostic"}

C20_OnlyInCFiles(fs) ==
    \A i \in 1 .. Len(fs) : fs[i].tool \in C20_CFamilyTools => fs[i].path[2] \in C_EXTENSIONS

\* As claimed.
C20_ScannedOnlyForApplicableTools ==
    /\ \A i \in 1 .. Len(scan_calls) :
        \E t \in args.linters : scan_calls[i][2] \in ToolExtensions(t)
    /\ C20_OnlyInCFiles(findings)
    /\ C20_OnlyInCFiles(all_findings)

(***************************************************************************)
(* C21: the findings scan_file returns for a file are in ascending order   *)
(* of line_number, and the findings of one line are in the order of the    *)
(* tools in the registry (yamllint, pylint, mypy, then the C-family).      *)
(***************************************************************************)
\* The place of a tool in the registry.
C21_RegistryIndex(tool) == CHOOSE i \in 1 .. Len(REGISTRY) : REGISTRY[i].tool = tool

C21_Before(f, g) ==
    \/ f.line_number < g.line_number
    \/ /\ f.line_number = g.line_number
       /\ C21_RegistryIndex(f.tool) < C21_RegistryIndex(g.tool)

C22_Place(path) == CHOOSE i \in 1 .. Len(files) : Path(files[i]) = path

C22_DistinctPaths == \A i, j \in 1 .. Len(files) : Path(files[i]) = Path(files[j]) => i = j

\* The number of findings of a path among the findings fs.
C22_Count(fs, path) == Cardinality({i \in 1 .. Len(fs) : fs[i].path = path})

C22_FindingsGroupedByFile ==
    (completed /\ ~args.fail_fast /\ C22_DistinctPaths) =>
        /\ \A i, j \in 1 .. Len(all_findings) :
            i < j => C22_Place(all_findings[i].path) <= C22_Place(all_findings[j].path)
        /\ \A k \in 1 .. Len(files) :
            C22_Count(all_findings, Path(files[k])) =
                IF C19_Matches(Path(files[k])) \/ ~files[k].readable THEN 0
                ELSE Len(scan_file(files[k], args.linters, args.allow))
        /\ \A k \in 1 .. Len(files) :
            LET own == SelectSeq(all_findings, LAMBDA f : f.path = Path(files[k]))
            IN  own # <<>> => own = scan_file(files[k], args.linters, args.allow)
        /\ ~args.quiet => stdout = output_findings(all_findings, args.json, args.count)
        /\ (~args.quiet /\ ~args.json /\ ~args.count) =>
            /\ Len(stdout) = Len(all_findings)
            /\ \A i \in 1 .. Len(stdout) : stdout[i] = Str(all_findings[i])

\* A completed run over two files with findings, two of the first file and
\* then one of the second on stdout.
C22_Witness ==
    /\ completed
    /\ ~args.fail_fast
    /\ ~args.quiet /\ ~args.json /\ ~args.count
    /\ C22_DistinctPaths
    /\ Len(stdout) = 3
    /\ stdout[1][1] = stdout[2][1]
    /\ stdout[3][1] # stdout[2][1]
    /\ C22_Place(stdout[1][1]) < C22_Place(stdout[3][1])

(***************************************************************************)
(* Runs of one line: a comment marker and a spelling of a directive        *)
(***************************************************************************)
DirectiveVocabulary(ext, marker, words, linters) ==
    [ext |-> ext, marker |-> marker, words |-> words, linters |-> linters]

PRAGMA_DIAGNOSTIC == <<"#", "pragma", SP, "clang", TAB, "diagnostic">>

DirectiveVocabularies ==
    {DirectiveVocabulary("py", <<HASH>>,
                         {W("pylint:"), W("disable"), W("DISABLE"), W("-next"), W("-LINE"),
                          <<"SKIP", "-file">>, W("-x"), W(SP), W(TAB)},
                         {"pylint"}),
     DirectiveVocabulary("py", <<HASH>>,
                         {W("type:"), W("TYPE:"), W("ignore"), W("IGNORE"), W("mypy:"),
                          W("-errors"), W(SP), W(TAB)},
                         {"mypy"}),
     DirectiveVocabulary("yaml", <<HASH>>,
                         {W("yamllint"), W("YAMLLINT"), W("disable"), W("Disable"),
                          W("-line"), W("-FILE"), W("-next"), W(SP), W(TAB)},
                         {"yamllint"}),
     DirectiveVocabulary("cpp", <<LINE_C>>,
                         {W("NOLINT"), W("NEXTLINE"), W("BEGIN"), W("clang-format"),
                          W("CLANG-FORMAT"), W("off"), W(SP), W(TAB)},
                         {"clang-tidy", "clang-format"}),
     DirectiveVocabulary("cpp", <<>>,
                         {PRAGMA_DIAGNOSTIC, <<"#", "pragma", "clang", SP, "diagnostic">>,
                          W("ignored"), W("push"), W(SP), W(TAB)},
                         {"clang-diagnostic"})}

\* The runs over the directive vocabularies: one file of one line, the
\* marker and at most n words.
DirectiveRuns(n) ==
    \E v \in DirectiveVocabularies :
        /\ \E ws \in SeqsUpTo(v.words, n) :
            files = <<File("a", v.ext, v.marker \o Flatten(ws), TRUE)>>
        /\ args = PlainArgs(v.linters)

InitSpell == Start /\ (DirectiveRuns(MaxWords) \/ CliRuns)

SpecSpell == InitSpell /\ [][Next]_vars

(***************************************************************************)
(* C23: matching ignores the letter case and tolerates any run of spaces   *)
(* and tabs around the separators of a directive form: every spelling      *)
(* that differs from the canonical one only in these yields the (tool,     *)
(* label) finding of the form.                                             *)
(*   as claimed: any run, the empty one included, in every form.           *)
(*   as amended: any run, the empty one included, after the colon of       *)
(*   'pylint:', 'type:' and 'mypy:'; any run of at least one space or tab  *)
(*   between the words of 'yamllint disable', 'clang-format off' and the   *)
(*   diagnostic pragma.                                                    *)
(***************************************************************************)
C23_Form(tool, label, groups, min) ==
    [tool |-> tool, label |-> label, groups |-> groups, min |-> min]

\* The directive forms: the groups of atoms that white space may separate,
\* and the least white space the patterns ask for between two groups.
C23_Forms ==
    {C23_Form("yamllint", "yamllint disable-line", <<W("yamllint"), <<"disable", "-line">> >>, 1),
     C23_Form("yamllint", "yamllint disable-file", <<W("yamllint"), <<"disable", "-file">> >>, 1),
     C23_Form("yamllint", "yamllint disable", <<W("yamllint"), W("disable")>>, 1),
     C23_Form("pylint", "pylint: disable-next", <<W("pylint:"), <<"disable", "-next">> >>, 0),
     C23_Form("pylint", "pylint: disable-line", <<W("pylint:"), <<"disable", "-line">> >>, 0),
     C23_Form("pylint", "pylint: skip-file", <<W("pylint:"), <<"skip", "-file">> >>, 0),
     C23_Form("pylint", "pylint: disable", <<W("pylint:"), W("disable")>>, 0),
     C23_Form("mypy", "type: ignore", <<W("type:"), W("ignore")>>, 0),
     C23_Form("mypy", "mypy: ignore-errors", <<W("mypy:"), <<"ignore", "-errors">> >>, 0),
     C23_Form("clang-tidy", "NOLINT", <<W("nolint")>>, 0),
     C23_Form("clang-tidy", "NOLINTNEXTLINE", << <<"nolint", "nextline">> >>, 0),
     C23_Form("clang-tidy", "NOLINTBEGIN", << <<"nolint", "begin">> >>, 0),
     C23_Form("clang-format", "clang-format off", <<W("clang-format"), W("off")>>, 1),
     C23_Form("clang-diagnostic", "#pragma clang diagnostic ignored",
              << <<"#", "pragma">>, W("clang"), W("diagnostic"), W("ignored")>>, 1)}

C23_Blank == {SP, TAB}

\* The text without its spaces and tabs, in lower case.
C23_Squeeze(text) ==
    LET solid == SelectSeq(text, LAMBDA a : a \notin C23_Blank)
    IN  [i \in 1 .. Len(solid) |-> Lower(solid[i])]

\* The number of atoms other than spaces and tabs before position i.
C23_SolidBefore(text, i) == Cardinality({j \in 1 .. (i - 1) : text[j] \notin C23_Blank})

\* The numbers of atoms after which one group of the form ends and the next starts.
C23_Gaps(form) ==
    {Len(Flatten(SubSeq(form.groups, 1, k))) : k \in 1 .. (Len(form.groups) - 1)}

\* The text is a spelling of the form: its atoms in any case, spaces and
\* tabs before, after and between the groups only, at least min between two.
C23_IsSpelling(text, form, min) ==
    /\ C23_Squeeze(text) = Flatten(form.groups)
    /\ \A i \in 1 .. Len(text) :
        text[i] \in C23_Blank =>
            C23_SolidBefore(text, i) \in C23_Gaps(form) \cup {0, Len(Flatten(form.groups))}
    /\ \A g \in C23_Gaps(form) :
        Cardinality({i \in 1 .. Len(text) :
                        text[i] \in C23_Blank /\ C23_SolidBefore(text, i) = g}) >= min

\* The text of a line in which the form is looked for: the line of code for
\* the pragma, what follows the comment marker for the others.
C23_Text(form, line, c_style) ==
    IF form.tool \in CODE_TOOLS THEN line
    ELSE IF line # <<>> /\ line[1] \in LineMarkers(c_style) THEN Tail(line)
    ELSE <<>>

C23_Found(form, n) ==
    /\ Cardinality(found_of(form.tool, n)) = 1
    /\ \A i \in found_of(form.tool, n) : findings[i].directive = form.label

C24_Labels(tool) == {entry_of(tool).patterns[i].directive : i \in 1 .. Len(entry_of(tool).patterns)}

C24_IsFinding(f) ==
    /\ f.path = Path(current)
    /\ f.line_number \in 1 .. line_number
    /\ f.tool \in applicable(args.linters, current)
    /\ f.directive \in C24_Labels(f.tool)

PRAGMA_STEM == <<"#", "pragma", SP, "clang", SP, "diagnostic", SP>>

PRAGMA_IGNORED == PRAGMA_STEM \o <<"ignored", SP, DQ, "-Wfoo", DQ>>

BlockVocabularies ==
    {Vocabulary("cpp",
                {PRAGMA_IGNORED, PRAGMA_STEM \o <<"push">>, PRAGMA_STEM \o <<"pop">>,
                 <<BLOCK_OPEN, NL>>, W(BLOCK_CLOSE), W(NL)},
                {{"clang-diagnostic"}, {"clang-diagnostic", "clang-tidy"}})}

CarryVocabularies ==
    {Vocabulary("cpp", Atoms({DQ, LINE_C, BLOCK_OPEN, BLOCK_CLOSE, "NOLINT", "x", NL}),
                {{"clang-tidy"}}),
     Vocabulary("c", {<<"x", BLOCK_OPEN>>, W(BLOCK_CLOSE), W("NOLINT"), W("x"), W(NL)},
                {{"clang-tidy"}})}

InitBlock ==
    Start /\ \/ VocabularyRuns(BlockVocabularies, MaxWords)
             \/ VocabularyRuns(CarryVocabularies, MaxAtoms)
             \/ CliRuns

SpecBlock == InitBlock /\ [][Next]_vars

(***************************************************************************)
(* C25: with clang-diagnostic requested, a line of code that is a          *)
(* '#pragma clang diagnostic ignored "-W..."' yields exactly one finding   *)
(* of the tool, labelled '#pragma clang diagnostic ignored'; the same text *)
(* on a line inside a block comment yields none; and a line on which no    *)
(* pragma says 'ignored' ('push', 'pop') yields none.                      *)
(***************************************************************************)
\* The line starts with the pragma and its argument.
C25_IsPragma(line) ==
    /\ Len(line) >= Len(PRAGMA_IGNORED)
    /\ SubSeq(line, 1, Len(PRAGMA_IGNORED)) = PRAGMA_IGNORED

\* Code, then a block comment that nothing on the line closes.
C25_OpensBlock(line) ==
    \E i \in 1 .. Len(line) :
        /\ line[i] = BLOCK_OPEN
        /\ PlainCode(line, 1, i - 1, TRUE)
        /\ \A k \in (i + 1) .. Len(line) : line[k] # BLOCK_CLOSE

\* Line n is inside a block comment from its start to its end.
C25_InsideBlock(n) ==
    \E m \in 1 .. (n - 1) :
        /\ NoBlockBefore(m)
        /\ C25_OpensBlock(lines[m])
        /\ \A k \in (m + 1) .. n : \A i \in 1 .. Len(lines[k]) : lines[k][i] # BLOCK_CLOSE

C25_PragmaInCode(n) == NoBlockBefore(n) /\ C25_IsPragma(lines[n])

C25_PragmaInBlock(n) == C25_InsideBlock(n) /\ C25_IsPragma(lines[n])

C26_OpenerInLiteral(line) ==
    \E i, j \in 1 .. Len(line) :
        /\ SimpleLiteral(line, i, j)
        /\ \E k \in (i + 1) .. (j - 1) : line[k] = BLOCK_OPEN
        /\ PlainCode(line, 1, i - 1, TRUE)
        /\ PlainCode(line, j + 1, Len(line), TRUE)

\* Code, then a line comment that holds a block-comment opener.
C26_OpenerInLineComment(line) ==
    \E m \in 1 .. Len(line) :
        /\ line[m] = LINE_C
        /\ PlainCode(line, 1, m - 1, TRUE)
        /\ \E k \in (m + 1) .. Len(line) : line[k] = BLOCK_OPEN

\* The line before line n ends inside a block comment.
C26_CarriedInto(n) ==
    /\ n >= 2
    /\ \/ C25_InsideBlock(n - 1)
       \/ NoBlockBefore(n - 1) /\ C25_OpensBlock(lines[n - 1])

\* Comment text to a closer at position i, then code to the line end.
C26_ClosesAt(line, i) ==
    /\ i \in 1 .. Len(line)
    /\ line[i] = BLOCK_CLOSE
    /\ \A k \in 1 .. (i - 1) : line[k] # BLOCK_CLOSE
    /\ PlainCode(line, i + 1, Len(line), TRUE)

C27_Suffixes == {"-next", "-line", "-file", "-errors", "-x"}

\* The suffixes that make a registered 'disable-' form of the tool.
C27_Registered(tool) ==
    CASE tool = "yamllint" -> {"-line", "-file"}
      [] tool = "pylint" -> {"-next", "-line"}

\* Every 'disable' of the line is followed by a suffix not registered for
\* the tool, and the line has no 'skip'.
C27_OnlyUnregistered(line, tool) ==
    /\ \E i \in 1 .. Len(line) : Lower(line[i]) = "disable"
    /\ \A i \in 1 .. Len(line) :
        Lower(line[i]) = "disable" =>
            /\ i < Len(line)
            /\ Lower(line[i + 1]) \in C27_Suffixes \ C27_Registered(tool)
    /\ \A i \in 1 .. Len(line) : Lower(line[i]) # "skip"

C27_BareDisableNeedsNoHyphen ==
    \A n \in scanned : \A tool \in {"yamllint", "pylint"} :
        C27_OnlyUnregistered(lines[n], tool) => found_of(tool, n) = {}

\* 'yamllint disable-next' or 'pylint: disable-x' in a comment, scanned for
\* the tool, and no finding.
C27_Witness ==
    \E n \in scanned : \E tool \in {"yamllint", "pylint"} :
        /\ tool \in applicable(args.linters, current)
        /\ C27_OnlyUnregistered(lines[n], tool)
        /\ \/ Contains(lines[n], <<HASH, "yamllint", SP, "disable", "-next">>)
           \/ Contains(lines[n], <<HASH, "pylint:", "disable", "-x">>)
        /\ found_at(n) = {}

(***************************************************************************)
(* C28: in line-oriented mode no state crosses a line and the lines are    *)
(* numbered from 1: the findings at line k are those that scan_line gives  *)
(* for the text of line k alone, whatever the lines before it hold, and    *)
(* every finding is at a line of the file.                                 *)
(***************************************************************************)
\* The (tool, directive) pairs of the findings at line k, in their order.
C28_PairsAt(k) ==
    LET at == SelectSeq(findings, LAMBDA f : f.line_number = k)
    IN  [i \in 1 .. Len(at) |-> <<at[i].tool, at[i].directive>>]

\* What scan_line gives for the line alone, entered with the state c.
C28_Alone(line, c) ==
    keep_findings(scan_line(line, applicable(args.linters, current), FALSE, c).found,
                  segment(line, FALSE, c), args.allow)

C28_LineModeIsLineByLine ==
    (pc = "scan" /\ ~c_style_comments(current)) =>
        /\ \A k \in scanned : \A c \in BOOLEAN : C28_PairsAt(k) = C28_Alone(lines[k], c)
        /\ \A i \in 1 .. Len(findings) : findings[i].line_number \in scanned
        /\ ~in_block_comment

\* A first line that leaves a literal open, with no finding, and a
\* directive in a comment on the second line, found at line 2.
C28_Witness ==
    /\ pc = "scan"
    /\ ~c_style_comments(current)
    /\ line_number >= 2
    /\ C9_Unterminated(lines[1], FALSE)
    /\ found_at(1) = {}
    /\ Len(lines[2]) >= 2
    /\ lines[2][1] = HASH
    /\ Cardinality(found_at(2)) = 1
    /\ Len(findings) = 1

(***************************************************************************)
(* C29: when no file has a finding, a run with --fail-fast is the run      *)
(* without it: the same files are opened and scanned, in the same order,   *)
(* the same read errors are reported, the same output is printed, and the  *)
(* exit code is 2 when a read failed and 0 otherwise.  What the run leaves *)
(* is stated with no mention of the option.                                *)
(***************************************************************************)
C29_FailFastWithoutFindingsChangesNothing ==
    (pc = "done" /\ linters_valid /\ with_findings = {}) =>
        /\ file_idx = Len(files)
        /\ opened = paths_of(C19_Others)
        /\ scan_calls = paths_of(C19_Scanned)
        /\ stderr = C17_Errors
        /\ all_findings = <<>>
        /\ stdout = printed(<<>>)
        /\ exit_code = IF args.warn_only THEN EXIT_SUCCESS
                       ELSE IF read_failures # {} THEN EXIT_ERROR
                       ELSE EXIT_SUCCESS

\* A --fail-fast run over a file with no finding and a file that cannot be
\* read: both opened, the error reported, exit code 2.
C29_Witness ==
    /\ pc = "done"
    /\ linters_valid
    /\ args.fail_fast
    /\ with_findings = {}
    /\ Len(opened) >= 2
    /\ Len(scan_calls) >= 1
    /\ Len(stderr) >= 1
    /\ ~files[1].readable
    /\ exit_code = EXIT_ERROR

(***************************************************************************)
(* C30: the exclude patterns are looked at before a file is opened: a path *)
(* that an exclude pattern matches and that cannot be read gives no        *)
(* 'Error reading' line and does not set the error state, so it cannot     *)
(* make the exit code 2.                                                   *)
(***************************************************************************)
\* The indexes of the files that cannot be read and that no exclude pattern
\* matches, among the first n.
C30_Failures(n) == {k \in 1 .. n : ~files[k].readable /\ ~C19_Matches(Path(files[k]))}

C30_ExcludedUnreadablePathIsNoError ==
    /\ \A i \in 1 .. Len(stderr) :
        stderr[i][1] = "Error reading" => ~C19_Matches(stderr[i][2])
    /\ had_error => C30_Failures(file_idx) # {}
    /\ (pc = "done" /\ linters_valid /\ C30_Failures(Len(files)) = {})
        => exit_code # EXIT_ERROR

\* A completed run over a file that cannot be read and that an exclude
\* pattern matches: nothing on the error stream, no error state, exit code
\* 0 or 1.
C30_Witness ==
    /\ completed
    /\ \E k \in 1 .. Len(files) : ~files[k].readable /\ C19_Matches(Path(files[k]))
    /\ Len(scan_calls) >= 1
    /\ stderr = <<>>
    /\ ~had_error
    /\ exit_code \in {EXIT_SUCCESS, EXIT_FINDINGS}

====
